---- MODULE Spec2Model ----
(***************************************************************************)
(* Model of the nomad driver (internal/drivers/nomad/driver.go): the       *)
(* Create / Destroy orchestration, the poller pollForJob, the machine      *)
(* resolver fetchMachine and the detached deregistrations, running against *)
(* a scheduler whose jobs move pending -> running -> dead and whose RPCs   *)
(* may fail.                                                               *)
(*                                                                         *)
(* Threads: "create" runs one Create call (its deferred Destroy included,  *)
(* on context.Background()); "user" runs the caller's Destroy calls.       *)
(* Detached goroutines launched by pollForJob are the elements of          *)
(* `detached`.                                                             *)
(***************************************************************************)
EXTENDS Integers, Sequences, FiniteSets, TLC

\* ------------------------------------------------------------------ bounds
MaxFailed == 1        \* the summary's failed counter ranges over 0..MaxFailed
MaxSlice == 2         \* longest instance slice handed to Destroy
MaxDestroyCalls == 2  \* Destroy calls the caller makes (a call and its repetitions)
MaxCpuLen == 2        \* longest configured vm_cpus string of the validation runs
IdLen == 2            \* length of a generated instance id (20 in the code)
MaxCpus == 5          \* resourceJob is computed for cpus in -1..MaxCpus
MaxMemGB == 5         \* resourceJob is computed for memGB in -1..MaxMemGB

\* --------------------------------------------------------------- constants
machineFrequencyMhz == 5100
minNomadCPUMhz == 40
minNomadMemoryMb == 20
MaxPort == 65535

NewIds == {"a"}              \* instance ids random(20) may produce
StaleIds == {"b"}            \* ids of instances the caller holds from before
Ids == NewIds \cup StaleIds
Nodes == {"n1", "n2"}        \* node ids the scheduler assigns
Threads == {"create", "user"}

Nil == "nil"
NoErr == "none"
Absent == "absent"
Pending == "pending"
Running == "running"
Dead == "dead"
JobStatus == {Pending, Running, Dead}

\* ------------------------------------------------------------------ job ids
destroyJobID(s) == "destroy_job_" \o s
initJobID(s) == "init_job_" \o s
\* mutant: the reservation job is named like the init job
resourceJobID_AsInit(s) == "init_job_" \o s
resourceJobID(s) == "init_job_resources_" \o s

JobsOf(id) == {resourceJobID(id), initJobID(id), destroyJobID(id)}
JobIds == UNION {JobsOf(id) : id \in Ids}

\* ------------------------------------------------------------ strconv.Atoi
Digits == <<"0", "1", "2", "3", "4", "5", "6", "7", "8", "9">>
IsDigit(c) == \E i \in 1..10 : Digits[i] = c
DigitVal(c) == (CHOOSE i \in 1..10 : Digits[i] = c) - 1

RECURSIVE DigitsVal(_)
DigitsVal(s) ==
    IF s = <<>> THEN 0
    ELSE 10 * DigitsVal(SubSeq(s, 1, Len(s) - 1)) + DigitVal(s[Len(s)])

\* a string is a sequence of one-character strings; [ok, val] is (val, err == nil)
Atoi(s) ==
    LET signed == s # <<>> /\ s[1] \in {"+", "-"}
        body == IF signed THEN Tail(s) ELSE s
    IN  IF body = <<>> \/ \E i \in 1..Len(body) : ~IsDigit(body[i])
        THEN [ok |-> FALSE, val |-> 0]
        ELSE [ok |-> TRUE,
              val |-> IF signed /\ s[1] = "-" THEN 0 - DigitsVal(body)
                      ELSE DigitsVal(body)]

VmCpusValues == {<<"2">>, <<"x">>}
VmMemoryValues == {<<"4">>, <<>>}

\* ------------------------------------------------------------ job templates
convertGigsToMegs(gb) == gb * 1024

\* mutant: the reservation asks for the whole machine share
resourceJob_NoHeadroom(cpus, memGB, vm) ==
    [ID |-> resourceJobID(vm),
     portLabel |-> vm,
     cpu |-> machineFrequencyMhz * cpus,
     mem |-> convertGigsToMegs(memGB),
     node |-> ""]

resourceJob(cpus, memGB, vm) ==
    [ID |-> resourceJobID(vm),
     portLabel |-> vm,
     cpu |-> machineFrequencyMhz * cpus - 109,
     mem |-> convertGigsToMegs(memGB) - 53,
     node |-> ""]

initJob(vm, hostPort, nodeID) ==
    [ID |-> initJobID(vm), group |-> "init_task_group_" \o vm,
     cpu |-> minNomadCPUMhz, mem |-> minNomadMemoryMb,
     port |-> hostPort, node |-> nodeID]

destroyJob(vm, nodeID) ==
    [ID |-> destroyJobID(vm), cpu |-> minNomadCPUMhz, mem |-> minNomadMemoryMb,
     node |-> nodeID]

\* ------------------------------------------------------------- fetchMachine
RECURSIVE SplitOn(_, _)
\* strings.Split(s, sep) for a one-character separator
SplitOn(s, sep) ==
    IF \A i \in 1..Len(s) : s[i] # sep THEN <<s>>
    ELSE LET i == CHOOSE k \in 1..Len(s) :
                      s[k] = sep /\ \A m \in 1..(k - 1) : s[m] # sep
         IN  <<SubSeq(s, 1, i - 1)>> \o SplitOn(SubSeq(s, i + 1, Len(s)), sep)

\* net.ParseIP(s) != nil for a string without ':' (the host segment never holds
\* one): a dotted quad of decimal fields 0..255 without leading zeros
ParseIP(s) ==
    LET f == SplitOn(s, ".")
    IN  /\ Len(f) = 4
        /\ \A k \in 1..4 :
              /\ f[k] # <<>>
              /\ \A i \in 1..Len(f[k]) : IsDigit(f[k][i])
              /\ Len(f[k]) <= 3
              /\ DigitsVal(f[k]) <= 255
              /\ (Len(f[k]) > 1 => f[k][1] # "0")

AddrIP == <<"1", "0", ".", "0", ".", "0", ".", "5", ":", "4", "6">>
AddrName == <<"n", "1", ":", "4", "6">>
HTTPAddrs == {AddrIP, AddrName}
PortValues == {0, MaxPort, MaxPort + 1}

\* what Jobs().Allocations, Allocations().Info and Nodes().Info may answer
AllocListResponses ==
    {[err |-> TRUE, list |-> <<>>], [err |-> FALSE, list |-> <<>>]}
    \cup {[err |-> FALSE, list |-> <<[NodeID |-> n, ID |-> a]>>] :
             n \in Nodes \cup {""}, a \in {"", "alloc"}}
AllocInfoResponses ==
    {[err |-> TRUE, networks |-> <<>>], [err |-> FALSE, networks |-> <<>>]}
    \cup {[err |-> FALSE, networks |-> <<[port |-> v]>>] : v \in PortValues}
NodeInfoResponses ==
    {[err |-> TRUE, HTTPAddr |-> <<>>]}
    \cup {[err |-> FALSE, HTTPAddr |-> h] : h \in HTTPAddrs}

FetchResult(e, ip, nodeID, port) ==
    [err |-> e, ip |-> ip, nodeID |-> nodeID, port |-> port]

\* fetchMachine on the three answers; err is NoErr on success
fetchMachine(l, alloc, n) ==
    IF l.err THEN FetchResult("rpc", <<>>, "", 0)
    ELSE IF Len(l.list) = 0 THEN FetchResult("no_allocation", <<>>, "", 0)
    ELSE LET nodeID == l.list[1].NodeID
             allocID == l.list[1].ID
         IN  IF nodeID = "" \/ allocID = ""
             THEN FetchResult("no_alloc_id", <<>>, nodeID, 0)
             ELSE IF alloc.err THEN FetchResult("rpc", <<>>, nodeID, 0)
             ELSE IF Len(alloc.networks) = 0
             THEN FetchResult("no_network", <<>>, nodeID, 0)
             ELSE LET port == alloc.networks[1].port
                  IN  IF port <= 0 \/ port > MaxPort
                      THEN FetchResult("bad_port", <<>>, nodeID, port)
                      ELSE IF n.err THEN FetchResult("rpc", <<>>, nodeID, port)
                      ELSE LET ip == SplitOn(n.HTTPAddr, ":")[1]
                           IN  IF ~ParseIP(ip)
                               THEN FetchResult("bad_ip", ip, nodeID, port)
                               ELSE FetchResult(NoErr, ip, nodeID, port)

\* -------------------------------------------------------------------- state
VARIABLES
    cfg,          \* driver config: vmCpus, vmMemoryGB (immutable after New)
    status,       \* scheduler: job id -> Absent or its JobStatus
    jobNode,      \* scheduler: job id -> node constraint of the registered job
    failed,       \* scheduler: instance id -> failed counter of its init task group
    pc,           \* thread -> position
    ctxDone,      \* thread -> the caller's context is cancelled
    poll,         \* thread -> frame of the running pollForJob
    ret,          \* thread -> what pollForJob returned, until the caller reads it
    des,          \* thread -> frame of the running Destroy, with the steps
                  \* done per instance and the scheduler calls it made
    vm,           \* Create: the generated instance id
    inst,         \* Create: the instance built after fetchMachine
    fetched,      \* Create: what fetchMachine returned
    cRes,         \* Create: "none", "ok" (instance returned) or "err"
    cErr,         \* Create: which step failed
    cCause,       \* Create: the error pollForJob or checkTaskGroupStatus gave
    resSeen,      \* Create: status the reservation poll returned with
    uRes,         \* result of the caller's last Destroy
    uCalls,       \* Destroy calls the caller has started
    uPrev,        \* history: result of the caller's previous Destroy and the
                  \* jobs registered when the current one started
    detached,     \* job ids with a detached deregisterJob goroutine not yet run
    rpcs,         \* history: <<job id, kind>> of every scheduler call made
    deregFailed,  \* history: job ids for which a Deregister call failed
    arg,          \* helper functions: the arguments of the call at hand
    out           \* helper functions: what the calls made so far returned

sched == <<status, jobNode, failed>>
thr == <<pc, ctxDone, poll, ret, des>>
cre == <<vm, inst, fetched, cRes, cErr, cCause, resSeen>>
usr == <<uRes, uCalls, uPrev>>
history == <<rpcs, deregFailed>>
fn == <<arg, out>>
vars == <<cfg, sched, thr, cre, usr, detached, history, fn>>

NoPoll ==
    [id |-> Nil, remove |-> FALSE, terms |-> {}, bg |-> FALSE, fired |-> FALSE,
     job |-> Nil, terminal |-> FALSE, cont |-> Nil, seen |-> Nil, sawTerm |-> FALSE]
NoRet ==
    [id |-> Nil, job |-> Nil, err |-> NoErr, spawned |-> FALSE, remove |-> FALSE,
     seen |-> Nil, sawTerm |-> FALSE]
NoDes == [insts |-> <<>>, idx |-> 0, hist |-> <<>>, calls |-> {}]
NoInst == [ID |-> Nil, NodeID |-> "", Port |-> 0, Address |-> <<>>]
NoStep == [dereg |-> "none", reg |-> "none", info |-> FALSE, poll |-> "none"]
NoFetch == [err |-> Nil, ip |-> <<>>, nodeID |-> "", port |-> 0]
NoPrev == [res |-> "none", registered |-> {}]

Init ==
    /\ cfg \in [vmCpus : VmCpusValues, vmMemoryGB : VmMemoryValues]
    /\ status = [j \in JobIds |-> Absent]
    /\ jobNode = [j \in JobIds |-> ""]
    /\ failed = [i \in Ids |-> 0]
    /\ pc = [t \in Threads |-> "idle"]
    /\ ctxDone = [t \in Threads |-> FALSE]
    /\ poll = [t \in Threads |-> NoPoll]
    /\ ret = [t \in Threads |-> NoRet]
    /\ des = [t \in Threads |-> NoDes]
    /\ vm = Nil
    /\ inst = NoInst
    /\ fetched = NoFetch
    /\ cRes = "none"
    /\ cErr = NoErr
    /\ cCause = NoErr
    /\ resSeen = Nil
    /\ uRes = "none"
    /\ uCalls = 0
    /\ uPrev = NoPrev
    /\ detached = {}
    /\ rpcs = {}
    /\ deregFailed = {}
    /\ arg = <<>>
    /\ out = <<>>

\* ---------------------------------------------------------- scheduler calls
\* Jobs().Register(job): a failing call changes nothing
Register(job, ok) ==
    /\ rpcs' = rpcs \cup {<<job.ID, "register">>}
    /\ IF ok
       THEN /\ status' = [status EXCEPT ![job.ID] = Pending]
            /\ jobNode' = [jobNode EXCEPT ![job.ID] = job.node]
       ELSE UNCHANGED <<status, jobNode>>
    /\ UNCHANGED <<failed, deregFailed>>

\* deregisterJob: Jobs().Deregister(id, purge = true)
deregisterJob(id, ok) ==
    /\ rpcs' = rpcs \cup {<<id, "deregister">>}
    /\ IF ok
       THEN /\ status' = [status EXCEPT ![id] = Absent]
            /\ jobNode' = [jobNode EXCEPT ![id] = ""]
            /\ UNCHANGED deregFailed
       ELSE /\ deregFailed' = deregFailed \cup {id}
            /\ UNCHANGED <<status, jobNode>>
    /\ UNCHANGED failed

\* Jobs().Info(id): an error, a nil job, or the registered job's status
InfoResponses(id) ==
    {"err", Nil} \cup (IF status[id] # Absent THEN {status[id]} ELSE {})

\* ---------------------------------------------------------------- pollForJob
StartPoll(t, id, remove, terms, bg, cont) ==
    /\ poll' = [poll EXCEPT ![t] =
                  [id |-> id, remove |-> remove, terms |-> terms \cup {Dead},
                   bg |-> bg, fired |-> FALSE, job |-> Nil, terminal |-> FALSE,
                   cont |-> cont, seen |-> Nil, sawTerm |-> FALSE]]
    /\ pc' = [pc EXCEPT ![t] = "poll"]

\* <-ctx.Done() is ready (context.Background() is never done)
CtxIsDone(t) == ~poll[t].bg /\ ctxDone[t]

\* mutant: the goroutine of the remove branch is never launched
PollResult_NoSpawn(f) ==
    IF f.job = Nil
    THEN [job |-> Nil, err |-> "could not poll for job", spawned |-> FALSE]
    ELSE IF f.terminal
    THEN [job |-> f.job, err |-> NoErr, spawned |-> FALSE]
    ELSE [job |-> f.job, err |-> "job never reached terminal state",
          spawned |-> FALSE]

\* mutant: the terminal flag is not consulted, a deadline counts as success
PollResult_TimeoutIsSuccess(f) ==
    IF f.job = Nil
    THEN [job |-> Nil, err |-> "could not poll for job", spawned |-> FALSE]
    ELSE [job |-> f.job, err |-> NoErr, spawned |-> FALSE]

\* mutant: the job is deregistered whatever remove says
PollResult_AlwaysRemove(f) ==
    IF f.job = Nil
    THEN [job |-> Nil, err |-> "could not poll for job", spawned |-> FALSE]
    ELSE IF f.terminal
    THEN [job |-> f.job, err |-> NoErr, spawned |-> FALSE]
    ELSE [job |-> f.job, err |-> "job never reached terminal state",
          spawned |-> TRUE]

\* the code after the loop L, on the frame the loop ended with
PollResult(f) ==
    IF f.job = Nil
    THEN [job |-> Nil, err |-> "could not poll for job", spawned |-> FALSE]
    ELSE IF f.terminal
    THEN [job |-> f.job, err |-> NoErr, spawned |-> FALSE]
    ELSE [job |-> f.job, err |-> "job never reached terminal state",
          spawned |-> f.remove]

PollFinish(t, f) ==
    LET r == PollResult(f)
    IN  /\ ret' = [ret EXCEPT ![t] =
                     [id |-> f.id, job |-> r.job, err |-> r.err,
                      spawned |-> r.spawned, remove |-> f.remove,
                      seen |-> f.seen, sawTerm |-> f.sawTerm]]
        /\ detached' = IF r.spawned THEN detached \cup {f.id} ELSE detached
        /\ pc' = [pc EXCEPT ![t] = f.cont]
        /\ poll' = [poll EXCEPT ![t] = NoPoll]

\* the job variable after one Jobs().Info answer
JobAfterInfo(r) == IF r \in JobStatus THEN r ELSE Nil

\* mutant: a failed query or a nil job ends the loop like a terminal status
PollQuery_ReturnOnError(t) ==
    /\ pc[t] = "poll"
    /\ ~CtxIsDone(t)
    /\ ~poll[t].fired
    /\ \E r \in InfoResponses(poll[t].id) :
          LET f == poll[t]
              g == [f EXCEPT !.job = JobAfterInfo(r),
                             !.seen = IF r \in JobStatus THEN r ELSE f.seen,
                             !.terminal = r \in JobStatus /\ r \in f.terms,
                             !.sawTerm = f.sawTerm \/ (r \in JobStatus /\ r \in f.terms)]
          IN  IF g.terminal \/ r \notin JobStatus
              THEN PollFinish(t, g)
              ELSE /\ poll' = [poll EXCEPT ![t] = g]
                   /\ UNCHANGED <<pc, ret, detached>>
    /\ rpcs' = rpcs \cup {<<poll[t].id, "info">>}
    /\ des' = IF poll[t].cont = "d_polled"
              THEN [des EXCEPT ![t].hist[des[t].idx].info = TRUE,
                               ![t].calls = @ \cup {<<poll[t].id, "info">>}]
              ELSE des
    /\ UNCHANGED <<cfg, fn, sched, ctxDone, cre, usr, deregFailed>>

\* select default: one Jobs().Info query
PollQuery(t) ==
    /\ pc[t] = "poll"
    /\ ~CtxIsDone(t)
    /\ ~poll[t].fired
    /\ \E r \in InfoResponses(poll[t].id) :
          LET f == poll[t]
              g == [f EXCEPT !.job = JobAfterInfo(r),
                             !.seen = IF r \in JobStatus THEN r ELSE f.seen,
                             !.terminal = r \in JobStatus /\ r \in f.terms,
                             !.sawTerm = f.sawTerm \/ (r \in JobStatus /\ r \in f.terms)]
          IN  IF g.terminal
              THEN PollFinish(t, g)
              ELSE /\ poll' = [poll EXCEPT ![t] = g]
                   /\ UNCHANGED <<pc, ret, detached>>
    /\ rpcs' = rpcs \cup {<<poll[t].id, "info">>}
    /\ des' = IF poll[t].cont = "d_polled"
              THEN [des EXCEPT ![t].hist[des[t].idx].info = TRUE,
                               ![t].calls = @ \cup {<<poll[t].id, "info">>}]
              ELSE des
    /\ UNCHANGED <<cfg, fn, sched, ctxDone, cre, usr, deregFailed>>

\* mutant: the deadline channel is not among the cases of the select
PollBreak_OnlyOnCancel(t) ==
    /\ pc[t] = "poll"
    /\ CtxIsDone(t)
    /\ PollFinish(t, poll[t])
    /\ UNCHANGED <<cfg, fn, sched, ctxDone, des, cre, usr, history>>

\* select <-ctx.Done() or <-maxPollTime: break L
PollBreak(t) ==
    /\ pc[t] = "poll"
    /\ CtxIsDone(t) \/ poll[t].fired
    /\ PollFinish(t, poll[t])
    /\ UNCHANGED <<cfg, fn, sched, ctxDone, des, cre, usr, history>>

\* time.After(timeout) fires
TimerFire(t) ==
    /\ pc[t] = "poll"
    /\ ~poll[t].fired
    /\ poll' = [poll EXCEPT ![t].fired = TRUE]
    /\ UNCHANGED <<cfg, fn, sched, pc, ctxDone, ret, des, cre, usr, detached, history>>

\* the caller cancels the context of a running call; only the select of
\* pollForJob reads ctx.Done(), so a cancellation takes effect at a poll
CtxCancel(t) ==
    /\ pc[t] = "poll"
    /\ ~poll[t].bg
    /\ ~ctxDone[t]
    /\ ctxDone' = [ctxDone EXCEPT ![t] = TRUE]
    /\ UNCHANGED <<cfg, fn, sched, pc, poll, ret, des, cre, usr, detached, history>>

\* the goroutine pollForJob launched: p.deregisterJob(logr, id, true)
DetachedDeregister(j) ==
    /\ j \in detached
    /\ detached' = detached \ {j}
    /\ \E ok \in BOOLEAN : deregisterJob(j, ok)
    /\ UNCHANGED <<cfg, fn, thr, cre, usr>>

\* ------------------------------------------------------------------- Destroy
StartDestroy(t, insts) ==
    des' = [des EXCEPT ![t] = [insts |-> insts, idx |-> 1,
                               hist |-> [k \in 1..Len(insts) |-> NoStep],
                               calls |-> {}]]

CurInst(t) == des[t].insts[des[t].idx]

\* Destroy returns: Create's deferred Destroy returns into Create's own return
\* (its result is dropped), the caller's Destroy returns to the caller
DestroyReturn(t, isErr) ==
    /\ pc' = [pc EXCEPT ![t] = IF t = "create" THEN "done" ELSE "idle"]
    /\ cRes' = IF t = "create" THEN "err" ELSE cRes
    /\ uRes' = IF t = "user" THEN (IF isErr THEN "err" ELSE "ok") ELSE uRes

\* mutant: Destroy goes straight to the destroy job, the reservation is kept
DestroyDeregister_Skip(t) ==
    /\ pc[t] = "d_dereg"
    /\ pc' = [pc EXCEPT ![t] = "d_reg"]
    /\ UNCHANGED <<cfg, fn, sched, ctxDone, poll, ret, des, cre, usr, detached, history>>

\* mutant: a failed Deregister call ends Destroy with that error
DestroyDeregister_AbortOnError(t) ==
    /\ pc[t] = "d_dereg"
    /\ \E ok \in BOOLEAN :
          /\ deregisterJob(resourceJobID(CurInst(t).ID), ok)
          /\ des' = [des EXCEPT ![t].hist[des[t].idx].dereg =
                                   IF ok THEN "ok" ELSE "fail",
                                 ![t].calls = @ \cup
                                   {<<resourceJobID(CurInst(t).ID), "deregister">>}]
          /\ IF ok
             THEN /\ pc' = [pc EXCEPT ![t] = "d_reg"]
                  /\ UNCHANGED <<cRes, uRes>>
             ELSE DestroyReturn(t, TRUE)
    /\ UNCHANGED <<cfg, fn, ctxDone, poll, ret, vm, inst, fetched, cErr, cCause, resSeen, uCalls,
                   uPrev, detached>>

\* mutant: the reservation's job id is read from a field that Create writes
DestroyDeregister_SharedId(t) ==
    /\ pc[t] = "d_dereg"
    /\ \E ok \in BOOLEAN :
          LET id == IF vm # Nil THEN vm ELSE CurInst(t).ID
          IN  /\ deregisterJob(resourceJobID(id), ok)
              /\ des' = [des EXCEPT ![t].hist[des[t].idx].dereg =
                                       IF ok THEN "ok" ELSE "fail",
                                     ![t].calls = @ \cup
                                       {<<resourceJobID(id), "deregister">>}]
    /\ pc' = [pc EXCEPT ![t] = "d_reg"]
    /\ UNCHANGED <<cfg, fn, ctxDone, poll, ret, cre, usr, detached>>

\* err = p.deregisterJob(logr, resourceJobID, true): logged, never returned
DestroyDeregister(t) ==
    /\ pc[t] = "d_dereg"
    /\ \E ok \in BOOLEAN :
          /\ deregisterJob(resourceJobID(CurInst(t).ID), ok)
          /\ des' = [des EXCEPT ![t].hist[des[t].idx].dereg =
                                   IF ok THEN "ok" ELSE "fail",
                                 ![t].calls = @ \cup
                                   {<<resourceJobID(CurInst(t).ID), "deregister">>}]
    /\ pc' = [pc EXCEPT ![t] = "d_reg"]
    /\ UNCHANGED <<cfg, fn, ctxDone, poll, ret, cre, usr, detached>>

\* mutant: the Destroy deferred by Create polls on the context of Create
DestroyRegister_CallerCtx(t) ==
    /\ pc[t] = "d_reg"
    /\ \E ok \in BOOLEAN :
          /\ Register(destroyJob(CurInst(t).ID, CurInst(t).NodeID), ok)
          /\ des' = [des EXCEPT ![t].hist[des[t].idx].reg =
                                   IF ok THEN "ok" ELSE "fail",
                                 ![t].calls = @ \cup
                                   {<<destroyJobID(CurInst(t).ID), "register">>}]
          /\ IF ok
             THEN /\ StartPoll(t, destroyJobID(CurInst(t).ID), FALSE, {Dead},
                               FALSE, "d_polled")
                  /\ UNCHANGED <<cRes, uRes>>
             ELSE /\ DestroyReturn(t, TRUE)
                  /\ UNCHANGED poll
    /\ UNCHANGED <<cfg, fn, ctxDone, ret, vm, inst, fetched, cErr, cCause, resSeen,
                   uCalls, uPrev, detached>>

\* Jobs().Register(destroy job), then pollForJob(ctx, jobID, destroyTimeout, false, {Dead})
DestroyRegister(t) ==
    /\ pc[t] = "d_reg"
    /\ \E ok \in BOOLEAN :
          /\ Register(destroyJob(CurInst(t).ID, CurInst(t).NodeID), ok)
          /\ des' = [des EXCEPT ![t].hist[des[t].idx].reg =
                                   IF ok THEN "ok" ELSE "fail",
                                 ![t].calls = @ \cup
                                   {<<destroyJobID(CurInst(t).ID), "register">>}]
          /\ IF ok
             THEN /\ StartPoll(t, destroyJobID(CurInst(t).ID), FALSE, {Dead},
                               t = "create", "d_polled")
                  /\ UNCHANGED <<cRes, uRes>>
             ELSE /\ DestroyReturn(t, TRUE)
                  /\ UNCHANGED poll
    /\ UNCHANGED <<cfg, fn, ctxDone, ret, vm, inst, fetched, cErr, cCause, resSeen, uCalls,
                   uPrev, detached>>

\* mutant: a failed poll is logged and the loop goes on to the next instance
DestroyPolled_ContinueOnError(t) ==
    /\ pc[t] = "d_polled"
    /\ ret' = [ret EXCEPT ![t] = NoRet]
    /\ LET res == IF ret[t].err # NoErr THEN "err" ELSE ret[t].job
       IN  IF des[t].idx = Len(des[t].insts)
           THEN /\ des' = [des EXCEPT ![t].hist[des[t].idx].poll = res]
                /\ DestroyReturn(t, ret[t].err # NoErr)
           ELSE /\ des' = [des EXCEPT ![t].hist[des[t].idx].poll = res,
                                      ![t].idx = des[t].idx + 1]
                /\ pc' = [pc EXCEPT ![t] = "d_dereg"]
                /\ UNCHANGED <<cRes, uRes>>
    /\ UNCHANGED <<cfg, fn, sched, ctxDone, poll, vm, inst, fetched, cErr, cCause, resSeen,
                   uCalls, uPrev, detached, history>>

\* the poll of the destroy job returned: abort on error, else next instance
DestroyPolled(t) ==
    /\ pc[t] = "d_polled"
    /\ ret' = [ret EXCEPT ![t] = NoRet]
    /\ IF ret[t].err # NoErr
       THEN /\ des' = [des EXCEPT ![t].hist[des[t].idx].poll = "err"]
            /\ DestroyReturn(t, TRUE)
       ELSE IF des[t].idx = Len(des[t].insts)
       THEN /\ des' = [des EXCEPT ![t].hist[des[t].idx].poll = ret[t].job]
            /\ DestroyReturn(t, FALSE)
       ELSE /\ des' = [des EXCEPT ![t].hist[des[t].idx].poll = ret[t].job,
                                  ![t].idx = des[t].idx + 1]
            /\ pc' = [pc EXCEPT ![t] = "d_dereg"]
            /\ UNCHANGED <<cRes, uRes>>
    /\ UNCHANGED <<cfg, fn, sched, ctxDone, poll, vm, inst, fetched, cErr, cCause, resSeen,
                   uCalls, uPrev, detached, history>>

\* -------------------------------------------------------------------- Create
CreateReturnErr(e) ==
    /\ cRes' = "err"
    /\ cErr' = e
    /\ pc' = [pc EXCEPT !["create"] = "done"]

\* vm := random(20); strconv.Atoi of the configured cpus and memory
CreateStart ==
    /\ pc["create"] = "idle"
    /\ pc["user"] = "idle"
    /\ uCalls = 0
    /\ \E id \in NewIds : vm' = id
    /\ IF ~Atoi(cfg.vmCpus).ok THEN CreateReturnErr("atoi_cpus")
       ELSE IF ~Atoi(cfg.vmMemoryGB).ok THEN CreateReturnErr("atoi_memory")
       ELSE /\ pc' = [pc EXCEPT !["create"] = "c_reg_res"]
            /\ UNCHANGED <<cRes, cErr>>
    /\ UNCHANGED <<cfg, fn, sched, ctxDone, poll, ret, des, inst, fetched, cCause, resSeen,
                   usr, detached, history>>

\* Jobs().Register(resourceJob), then pollForJob(ctx, resourceJobID,
\* resourceJobTimeout, true, {Running, Dead})
CreateRegisterResource ==
    /\ pc["create"] = "c_reg_res"
    /\ \E ok \in BOOLEAN :
          /\ Register(resourceJob(Atoi(cfg.vmCpus).val, Atoi(cfg.vmMemoryGB).val, vm), ok)
          /\ IF ok
             THEN /\ StartPoll("create", resourceJobID(vm), TRUE, {Running, Dead},
                               FALSE, "c_res_polled")
                  /\ UNCHANGED <<cRes, cErr>>
             ELSE /\ CreateReturnErr("register")
                  /\ UNCHANGED poll
    /\ UNCHANGED <<cfg, fn, ctxDone, ret, des, vm, inst, fetched, cCause, resSeen, usr,
                   detached>>

\* the reservation poll returned
CreateResourcePolled ==
    /\ pc["create"] = "c_res_polled"
    /\ ret' = [ret EXCEPT !["create"] = NoRet]
    /\ IF ret["create"].err # NoErr
       THEN /\ CreateReturnErr("no_node")
            /\ cCause' = ret["create"].err
            /\ UNCHANGED resSeen
       ELSE /\ pc' = [pc EXCEPT !["create"] = "c_fetch"]
            /\ resSeen' = ret["create"].job
            /\ UNCHANGED <<cRes, cErr, cCause>>
    /\ UNCHANGED <<cfg, fn, sched, ctxDone, poll, des, vm, inst, fetched, usr, detached, history>>

\* ip, id, hostPort, err := p.fetchMachine(logr, resourceJobID)
CreateFetchMachine ==
    /\ pc["create"] = "c_fetch"
    /\ \E l \in AllocListResponses, a \in AllocInfoResponses, n \in NodeInfoResponses :
          LET r == fetchMachine(l, a, n)
          IN  /\ fetched' = r
              /\ IF r.err # NoErr
                 THEN /\ pc' = [pc EXCEPT !["create"] = "c_defer_dereg"]
                      /\ cErr' = "fetch"
                      /\ UNCHANGED inst
                 ELSE /\ pc' = [pc EXCEPT !["create"] = "c_reg_init"]
                      /\ inst' = [ID |-> vm, NodeID |-> r.nodeID, Port |-> r.port,
                                  Address |-> r.ip]
                      /\ UNCHANGED cErr
    /\ rpcs' = rpcs \cup {<<resourceJobID(vm), "allocations">>}
    /\ UNCHANGED <<cfg, fn, sched, ctxDone, poll, ret, des, vm, cRes, cCause,
                   resSeen, usr, detached, deregFailed>>

\* mutant: Create returns the error without the deferred deregistration
CreateDeferDeregister_Skip ==
    /\ pc["create"] = "c_defer_dereg"
    /\ cRes' = "err"
    /\ pc' = [pc EXCEPT !["create"] = "done"]
    /\ UNCHANGED <<cfg, fn, sched, ctxDone, poll, ret, des, vm, inst, fetched, cErr,
                   cCause, resSeen, usr, detached, history>>

\* defer p.deregisterJob(logr, resourceJobID, true), run as Create returns
CreateDeferDeregister ==
    /\ pc["create"] = "c_defer_dereg"
    /\ \E ok \in BOOLEAN : deregisterJob(resourceJobID(vm), ok)
    /\ cRes' = "err"
    /\ pc' = [pc EXCEPT !["create"] = "done"]
    /\ UNCHANGED <<cfg, fn, ctxDone, poll, ret, des, vm, inst, fetched, cErr, cCause, resSeen,
                   usr, detached>>

\* mutant: the init job is registered with no node constraint of the resolver
CreateRegisterInit_Unpinned ==
    /\ pc["create"] = "c_reg_init"
    /\ \E ok \in BOOLEAN :
          /\ Register(initJob(vm, inst.Port, ""), ok)
          /\ IF ok
             THEN /\ StartPoll("create", initJobID(vm), TRUE, {Dead}, FALSE,
                               "c_init_polled")
                  /\ UNCHANGED cErr
             ELSE /\ pc' = [pc EXCEPT !["create"] = "c_defer_dereg"]
                  /\ cErr' = "register_init"
                  /\ UNCHANGED poll
    /\ UNCHANGED <<cfg, fn, ctxDone, ret, des, vm, inst, fetched, cRes, cCause, resSeen,
                   usr, detached>>

\* Jobs().Register(initJob), then pollForJob(ctx, initJobID, initTimeout, true, {Dead})
CreateRegisterInit ==
    /\ pc["create"] = "c_reg_init"
    /\ \E ok \in BOOLEAN :
          /\ Register(initJob(vm, inst.Port, inst.NodeID), ok)
          /\ IF ok
             THEN /\ StartPoll("create", initJobID(vm), TRUE, {Dead}, FALSE,
                               "c_init_polled")
                  /\ UNCHANGED cErr
             ELSE /\ pc' = [pc EXCEPT !["create"] = "c_defer_dereg"]
                  /\ cErr' = "register_init"
                  /\ UNCHANGED poll
    /\ UNCHANGED <<cfg, fn, ctxDone, ret, des, vm, inst, fetched, cRes, cCause, resSeen, usr,
                   detached>>

\* the init poll returned: on error, defer p.Destroy(context.Background(), {instance})
CreateInitPolled ==
    /\ pc["create"] = "c_init_polled"
    /\ ret' = [ret EXCEPT !["create"] = NoRet]
    /\ IF ret["create"].err # NoErr
       THEN /\ cErr' = "init_poll"
            /\ cCause' = ret["create"].err
            /\ StartDestroy("create", <<inst>>)
            /\ pc' = [pc EXCEPT !["create"] = "d_dereg"]
       ELSE /\ pc' = [pc EXCEPT !["create"] = "c_check"]
            /\ UNCHANGED <<cErr, cCause, des>>
    /\ UNCHANGED <<cfg, fn, sched, ctxDone, poll, vm, inst, fetched, cRes, resSeen, usr,
                   detached, history>>

\* what Jobs().Summary(jobID) may answer: an error, a nil summary, a summary
\* without the task group, or the group's failed counter
SummaryResponses(id) ==
    {[err |-> TRUE, isNil |-> TRUE, groups |-> {}, Failed |-> 0],
     [err |-> FALSE, isNil |-> TRUE, groups |-> {}, Failed |-> 0],
     [err |-> FALSE, isNil |-> FALSE, groups |-> {}, Failed |-> 0]}
    \cup (IF status[initJobID(id)] # Absent
          THEN {[err |-> FALSE, isNil |-> FALSE,
                 groups |-> {initJob(id, 0, "").group}, Failed |-> failed[id]]}
          ELSE {})

\* mutant: the Failed counter of the task group is not looked at
checkTaskGroupStatus_IgnoreFailed(summary, taskGroup) ==
    IF summary.err THEN "could not get summary of the job"
    ELSE IF summary.isNil THEN "could not get summary of the job"
    ELSE IF taskGroup \notin summary.groups
    THEN "could not get summary of the task group"
    ELSE NoErr

\* checkTaskGroupStatus on the summary answer; NoErr when every task passed
checkTaskGroupStatus(summary, taskGroup) ==
    IF summary.err THEN "could not get summary of the job"
    ELSE IF summary.isNil THEN "could not get summary of the job"
    ELSE IF taskGroup \notin summary.groups
    THEN "could not get summary of the task group"
    ELSE IF summary.Failed > 0 THEN "found failed tasks"
    ELSE NoErr

\* mutant: a failed init job makes Create return without the deferred Destroy
CreateCheckTaskGroup_NoDestroy ==
    /\ pc["create"] = "c_check"
    /\ \E r \in SummaryResponses(vm) :
          LET e == checkTaskGroupStatus(r, initJob(vm, inst.Port, inst.NodeID).group)
          IN  IF e # NoErr
              THEN /\ CreateReturnErr("init_failed")
                   /\ cCause' = e
              ELSE /\ cRes' = "ok"
                   /\ pc' = [pc EXCEPT !["create"] = "done"]
                   /\ UNCHANGED <<cErr, cCause>>
    /\ rpcs' = rpcs \cup {<<initJobID(vm), "summary">>}
    /\ UNCHANGED <<cfg, fn, sched, ctxDone, poll, ret, des, vm, inst, fetched, resSeen, usr,
                   detached, deregFailed>>

\* err = p.checkTaskGroupStatus(initJobID, initTaskGroup); return instance, nil
CreateCheckTaskGroup ==
    /\ pc["create"] = "c_check"
    /\ \E r \in SummaryResponses(vm) :
          LET e == checkTaskGroupStatus(r, initJob(vm, inst.Port, inst.NodeID).group)
          IN  IF e # NoErr
              THEN /\ cErr' = "init_failed"
                   /\ cCause' = e
                   /\ StartDestroy("create", <<inst>>)
                   /\ pc' = [pc EXCEPT !["create"] = "d_dereg"]
                   /\ UNCHANGED cRes
              ELSE /\ cRes' = "ok"
                   /\ pc' = [pc EXCEPT !["create"] = "done"]
                   /\ UNCHANGED <<cErr, cCause, des>>
    /\ rpcs' = rpcs \cup {<<initJobID(vm), "summary">>}
    /\ UNCHANGED <<cfg, fn, sched, ctxDone, poll, ret, vm, inst, fetched, resSeen, usr,
                   detached, deregFailed>>

\* ------------------------------------------------------- the caller's Destroy
StaleNode == "n1"
\* instances the caller can hold: the one Create returned, and instances of
\* ids no running Create owns (destroyed long ago, or never created)
KnownInstances ==
    (IF cRes = "ok" THEN {inst} ELSE {})
    \cup {[ID |-> i, NodeID |-> StaleNode, Port |-> 1, Address |-> <<>>] :
             i \in Ids \ {vm}}
Slices == UNION {[1..k -> KnownInstances] : k \in 0..MaxSlice}

\* jobs the scheduler holds
Registered == {j \in JobIds : status[j] # Absent}

\* the caller destroys after a Create that returned an instance, or without
\* any Create; calls for different instance ids share no driver state. A
\* later call repeats a call that returned ok, on the same slice.
UserDestroy ==
    /\ pc["user"] = "idle"
    /\ pc["create"] \in {"idle", "done"}
    /\ cRes # "err"
    /\ uCalls < MaxDestroyCalls
    /\ uCalls > 0 => uRes = "ok"
    /\ uCalls' = uCalls + 1
    /\ uPrev' = [res |-> uRes, registered |-> Registered]
    /\ ctxDone' = [ctxDone EXCEPT !["user"] = FALSE]
    /\ \E insts \in Slices :
          /\ uCalls > 0 => insts = des["user"].insts
          /\ StartDestroy("user", insts)
          /\ IF Len(insts) = 0
             THEN /\ uRes' = "ok"
                  /\ UNCHANGED pc
             ELSE /\ uRes' = "none"
                  /\ pc' = [pc EXCEPT !["user"] = "d_dereg"]
    /\ UNCHANGED <<cfg, fn, sched, poll, ret, cre, detached, history>>

\* ----------------------------------------------------------------- scheduler
\* the scheduler places a pending job
SchedRun(j) ==
    /\ status[j] = Pending
    /\ status' = [status EXCEPT ![j] = Running]
    /\ UNCHANGED <<cfg, fn, jobNode, failed, thr, cre, usr, detached, history>>

\* a job ends; an init job's summary then holds its failed counter
SchedDie(j) ==
    /\ status[j] \in {Pending, Running}
    /\ status' = [status EXCEPT ![j] = Dead]
    /\ IF \E i \in Ids : j = initJobID(i)
       THEN \E n \in 0..MaxFailed :
               failed' = [i \in Ids |-> IF j = initJobID(i) THEN n ELSE failed[i]]
       ELSE UNCHANGED failed
    /\ UNCHANGED <<cfg, fn, jobNode, thr, cre, usr, detached, history>>

Next ==
    \/ CreateStart
    \/ CreateRegisterResource
    \/ CreateResourcePolled
    \/ CreateFetchMachine
    \/ CreateDeferDeregister
    \/ CreateRegisterInit
    \/ CreateInitPolled
    \/ CreateCheckTaskGroup
    \/ UserDestroy
    \/ \E t \in Threads : PollQuery(t)
    \/ \E t \in Threads : PollBreak(t)
    \/ \E t \in Threads : TimerFire(t)
    \/ \E t \in Threads : CtxCancel(t)
    \/ \E t \in Threads : DestroyDeregister(t)
    \/ \E t \in Threads : DestroyRegister(t)
    \/ \E t \in Threads : DestroyPolled(t)
    \/ \E j \in JobIds : DetachedDeregister(j)
    \/ \E j \in JobIds : SchedRun(j)
    \/ \E j \in JobIds : SchedDie(j)

Spec == Init /\ [][Next]_vars

\* ------------------------------------------------------------------ progress
\* a step of the goroutine that runs thread t's call
ThreadStep(t) ==
    \/ /\ t = "create"
       /\ \/ CreateRegisterResource
          \/ CreateResourcePolled
          \/ CreateFetchMachine
          \/ CreateDeferDeregister
          \/ CreateRegisterInit
          \/ CreateInitPolled
          \/ CreateCheckTaskGroup
    \/ PollQuery(t)
    \/ PollBreak(t)
    \/ DestroyDeregister(t)
    \/ DestroyRegister(t)
    \/ DestroyPolled(t)

\* a running call goes on (every scheduler RPC returns) and the timer of
\* time.After fires
SpecLive ==
    /\ Spec
    /\ \A t \in Threads : WF_vars(ThreadStep(t)) /\ WF_vars(TimerFire(t))

\* ------------------------------------------- Create on any configured vm_cpus
\* the characters a configured vm_cpus is made of, and the strings of them
CpuChars == {"0", "2", "x", "-", "+"}
CpuStrings == UNION {[1..n -> CpuChars] : n \in 0..MaxCpuLen}

\* New with any vm_cpus string: the options are stored as given
InitValidate ==
    /\ cfg \in [vmCpus : CpuStrings, vmMemoryGB : VmMemoryValues]
    /\ status = [j \in JobIds |-> Absent]
    /\ jobNode = [j \in JobIds |-> ""]
    /\ failed = [i \in Ids |-> 0]
    /\ pc = [t \in Threads |-> "idle"]
    /\ ctxDone = [t \in Threads |-> FALSE]
    /\ poll = [t \in Threads |-> NoPoll]
    /\ ret = [t \in Threads |-> NoRet]
    /\ des = [t \in Threads |-> NoDes]
    /\ vm = Nil
    /\ inst = NoInst
    /\ fetched = NoFetch
    /\ cRes = "none"
    /\ cErr = NoErr
    /\ cCause = NoErr
    /\ resSeen = Nil
    /\ uRes = "none"
    /\ uCalls = 0
    /\ uPrev = NoPrev
    /\ detached = {}
    /\ rpcs = {}
    /\ deregFailed = {}
    /\ arg = <<>>
    /\ out = <<>>

\* Create up to its first scheduler call
NextValidate ==
    \/ CreateStart
    \/ CreateRegisterResource

SpecValidate == InitValidate /\ [][NextValidate]_vars

\* ---------------------------------------------------------- helper functions
\* a driver on which no operation runs
DriverIdle ==
    /\ cfg = [vmCpus |-> <<"2">>, vmMemoryGB |-> <<"4">>]
    /\ status = [j \in JobIds |-> Absent]
    /\ jobNode = [j \in JobIds |-> ""]
    /\ failed = [i \in Ids |-> 0]
    /\ pc = [t \in Threads |-> "idle"]
    /\ ctxDone = [t \in Threads |-> FALSE]
    /\ poll = [t \in Threads |-> NoPoll]
    /\ ret = [t \in Threads |-> NoRet]
    /\ des = [t \in Threads |-> NoDes]
    /\ vm = Nil
    /\ inst = NoInst
    /\ fetched = NoFetch
    /\ cRes = "none"
    /\ cErr = NoErr
    /\ cCause = NoErr
    /\ resSeen = Nil
    /\ uRes = "none"
    /\ uCalls = 0
    /\ uPrev = NoPrev
    /\ detached = {}
    /\ rpcs = {}
    /\ deregFailed = {}

driver == <<cfg, sched, thr, cre, usr, detached, history>>

\* the strings of n characters of chars
RECURSIVE StringsOf(_, _)
StringsOf(chars, n) ==
    IF n = 0 THEN {""}
    ELSE {c \o t : c \in chars, t \in StringsOf(chars, n - 1)}

\* ---- job ids and port labels of two instance ids
IdChars == {"a", "s", "0"}
\* ids of the form strings.ToLower(random(IdLen)) produces
GenIds == StringsOf(IdChars, IdLen)
\* ids of any form an instance handed to Destroy may carry
AnyIds == UNION {StringsOf(IdChars \cup {"_"}, n) : n \in 0..IdLen}

\* what the three job templates name their job, and the reservation's port label
NamesOf(id) ==
    [res |-> resourceJob(2, 4, id).ID,
     init |-> initJob(id, 1, "n1").ID,
     destroy |-> destroyJob(id, "n1").ID,
     label |-> resourceJob(2, 4, id).portLabel]

InitIds ==
    /\ DriverIdle
    /\ arg \in [x : AnyIds, y : AnyIds]
    /\ out = <<>>

NameJobs ==
    /\ out = <<>>
    /\ out' = <<[x |-> NamesOf(arg.x), y |-> NamesOf(arg.y)]>>
    /\ UNCHANGED <<driver, arg>>

NextIds == NameJobs

SpecIds == InitIds /\ [][NextIds]_vars

\* ---- the reservation's resources for two VM shapes
Shapes == [cpus : -1..MaxCpus, memGB : -1..MaxMemGB]

InitResources ==
    /\ DriverIdle
    /\ arg \in [x : Shapes, y : Shapes]
    /\ out = <<>>

ReserveResources ==
    /\ out = <<>>
    /\ out' = <<[x |-> resourceJob(arg.x.cpus, arg.x.memGB, "a"),
                 y |-> resourceJob(arg.y.cpus, arg.y.memGB, "a")]>>
    /\ UNCHANGED <<driver, arg>>

NextResources == ReserveResources

SpecResources == InitResources /\ [][NextResources]_vars

\* ---- SetPlatformDefaults
ArchAMD64 == "amd64"
ArchARM64 == "arm64"
OSLinux == "linux"
OSWindows == "windows"

ArchValues == {"", ArchAMD64, ArchARM64, "386", "arm", "AMD64", "x86_64", "amd64 "}
OSValues == {"", OSLinux, OSWindows, "darwin", "Linux", "freebsd", "win"}

\* mutant: the OS is defaulted but not verified
SetPlatformDefaults_NoOsCheck(platform) ==
    LET a == IF platform.Arch = "" THEN ArchAMD64 ELSE platform.Arch
        o == IF platform.OS = "" THEN OSLinux ELSE platform.OS
    IN  IF a # ArchAMD64 /\ a # ArchARM64
        THEN [platform |-> [Arch |-> a, OS |-> platform.OS], err |-> "invalid arch"]
        ELSE [platform |-> [Arch |-> a, OS |-> o], err |-> NoErr]

\* the platform as the function leaves it, and the error it returns
SetPlatformDefaults(platform) ==
    LET a == IF platform.Arch = "" THEN ArchAMD64 ELSE platform.Arch
        o == IF platform.OS = "" THEN OSLinux ELSE platform.OS
    IN  IF a # ArchAMD64 /\ a # ArchARM64
        THEN [platform |-> [Arch |-> a, OS |-> platform.OS], err |-> "invalid arch"]
        ELSE IF o # OSLinux /\ o # OSWindows
        THEN [platform |-> [Arch |-> a, OS |-> o], err |-> "invalid OS"]
        ELSE [platform |-> [Arch |-> a, OS |-> o], err |-> NoErr]

InitPlatform ==
    /\ DriverIdle
    /\ arg \in [Arch : ArchValues, OS : OSValues]
    /\ out = <<>>

\* the caller applies the function to its platform, and once more to a
\* platform it accepted; the platform is changed in place
ApplyDefaults ==
    /\ out = <<>> \/ (Len(out) = 1 /\ out[1].err = NoErr)
    /\ LET r == SetPlatformDefaults(arg)
       IN  /\ arg' = r.platform
           /\ out' = Append(out, [given |-> arg, platform |-> r.platform,
                                  err |-> r.err])
    /\ UNCHANGED driver

NextPlatform == ApplyDefaults

SpecPlatform == InitPlatform /\ [][NextPlatform]_vars

\* -------------------------------------------- Destroy concurrent with Create
\* instances of ids that no Create of this run generates
StaleInstances ==
    {[ID |-> i, NodeID |-> StaleNode, Port |-> 1, Address |-> <<>>] : i \in StaleIds}

\* the caller destroys such an instance at any moment, also while Create runs
ConcurrentDestroy ==
    /\ pc["user"] = "idle"
    /\ uCalls = 0
    /\ uCalls' = uCalls + 1
    /\ \E i \in StaleInstances : StartDestroy("user", <<i>>)
    /\ uRes' = "none"
    /\ pc' = [pc EXCEPT !["user"] = "d_dereg"]
    /\ UNCHANGED <<cfg, fn, sched, ctxDone, poll, ret, cre, uPrev, detached, history>>

\* Create may start while the caller's Destroy runs
CreateStartAnytime ==
    /\ pc["create"] = "idle"
    /\ \E id \in NewIds : vm' = id
    /\ IF ~Atoi(cfg.vmCpus).ok THEN CreateReturnErr("atoi_cpus")
       ELSE IF ~Atoi(cfg.vmMemoryGB).ok THEN CreateReturnErr("atoi_memory")
       ELSE /\ pc' = [pc EXCEPT !["create"] = "c_reg_res"]
            /\ UNCHANGED <<cRes, cErr>>
    /\ UNCHANGED <<cfg, fn, sched, ctxDone, poll, ret, des, inst, fetched, cCause,
                   resSeen, usr, detached, history>>

\* the two calls step in any order. The deadlines of the polls Create runs may
\* pass, which launches their detached deregistrations; the poll of the
\* caller's Destroy launches none and runs until its job is Dead. No context
\* is cancelled.
NextConcurrent ==
    \/ CreateStartAnytime
    \/ CreateRegisterResource
    \/ CreateResourcePolled
    \/ CreateFetchMachine
    \/ CreateDeferDeregister
    \/ CreateRegisterInit
    \/ CreateInitPolled
    \/ CreateCheckTaskGroup
    \/ ConcurrentDestroy
    \/ \E t \in Threads : PollQuery(t)
    \/ \E t \in Threads : DestroyDeregister(t)
    \/ \E t \in Threads : DestroyRegister(t)
    \/ \E t \in Threads : DestroyPolled(t)
    \/ PollBreak("create")
    \/ TimerFire("create")
    \/ \E j \in JobIds : DetachedDeregister(j)
    \/ \E j \in JobIds : SchedRun(j)
    \/ \E j \in JobIds : SchedDie(j)

\* the driver configured with a valid VM shape
InitConcurrent ==
    /\ DriverIdle
    /\ arg = <<>>
    /\ out = <<>>

SpecConcurrent == InitConcurrent /\ [][NextConcurrent]_vars

\* ==================================================================== claims
ResJob == resourceJobID(vm)
InitJob == initJobID(vm)
DestroyJob == destroyJobID(vm)

Issued(j, kind) == <<j, kind>> \in rpcs

\* Create has returned an error to its caller
CreateFailed == pc["create"] = "done" /\ cRes = "err"
\* Create has returned an instance and the caller has not destroyed anything yet
CreateSucceeded == pc["create"] = "done" /\ cRes = "ok" /\ uCalls = 0
\* the reservation job was registered by this Create
ReservationRegistered == cErr \notin {"atoi_cpus", "atoi_memory", "register"}
\* the init job was registered by this Create
InitRegistered == cErr \in {"init_poll", "init_failed"}
\* every detached goroutine has run
CleanupFinished == detached = {}

\* C1: once Create has returned an error after registering the reservation
\* job and every detached goroutine has run, a Deregister call for
\* reservation_job_id(id) has been issued.
C1_ReservationDeregisterIssued ==
    (CreateFailed /\ ReservationRegistered /\ CleanupFinished)
        => Issued(ResJob, "deregister")

C3_SuccessLeavesTwoJobs ==
    CreateSucceeded =>
        /\ status[ResJob] # Absent
        /\ status[InitJob] = Dead
        /\ failed[vm] = 0
        /\ status[DestroyJob] = Absent
        /\ ~Issued(DestroyJob, "register")
        /\ \A j \in JobsOf(vm) : ~Issued(j, "deregister")
        /\ inst.ID = vm

C3_Witness ==
    CreateSucceeded /\ status[ResJob] = Running /\ status[InitJob] = Dead

\* the caller's Destroy of the created instance alone has returned ok
DestroyedCreated ==
    /\ pc["create"] = "done" /\ cRes = "ok"
    /\ pc["user"] = "idle" /\ uRes = "ok"
    /\ Len(des["user"].insts) > 0
    /\ \A k \in 1..Len(des["user"].insts) : des["user"].insts[k] = inst

\* C4 as stated: after Create returned an instance and Destroy of it returned
\* ok, none of the three jobs of the id is registered.
C4_NoJobAfterDestroy ==
    DestroyedCreated => \A j \in JobsOf(vm) : status[j] = Absent

\* C4 as amended: after Create returned an instance and Destroy of it returned
\* ok, a Deregister call for the reservation job has been issued and the job
\* is gone unless that call failed, while the init job and the destroy job are
\* both still registered, Dead, and no Deregister call was issued for them.
C4_DestroyLeavesDeadJobs ==
    DestroyedCreated =>
        /\ Issued(ResJob, "deregister")
        /\ status[ResJob] # Absent => ResJob \in deregFailed
        /\ status[InitJob] = Dead
        /\ status[DestroyJob] = Dead
        /\ jobNode[DestroyJob] = inst.NodeID
        /\ ~Issued(InitJob, "deregister")
        /\ ~Issued(DestroyJob, "deregister")

C4_Witness ==
    DestroyedCreated /\ status[ResJob] = Absent /\ deregFailed = {}

\* pollForJob has returned to thread t and the caller has not read the result
PollReturned(t) == ret[t].id # Nil

\* C5: pollForJob returns success exactly when an answer showed a terminal
\* status, an error otherwise, and the job it returns is the last job
\* descriptor the scheduler answered with.
C5_PollReturnsLastObserved ==
    \A t \in Threads :
        PollReturned(t) =>
            /\ (ret[t].err = NoErr) <=> ret[t].sawTerm
            /\ ret[t].job = ret[t].seen

\* C6: whenever pollForJob returns an error and remove is true, it has
\* launched the detached deregistration of the polled job.
C6_RemoveOnEveryFailure ==
    \A t \in Threads :
        (PollReturned(t) /\ ret[t].err # NoErr /\ ret[t].remove)
            => (ret[t].spawned /\ (ret[t].id \in detached \/ Issued(ret[t].id, "deregister")))

\* Create has left WAIT_RESERVATION_RUNNING for RESOLVE_MACHINE
LeftReservationWait ==
    \/ pc["create"] \in {"c_fetch", "c_reg_init", "c_defer_dereg", "c_init_polled",
                         "c_check"}
    \/ vm # Nil /\ Issued(ResJob, "allocations")

\* C7 as stated: Create resolves the machine and registers the init job only
\* after the reservation poll observed the job Running.
C7_OnlyAfterRunning ==
    LeftReservationWait => resSeen = Running

\* C7 as amended: Create resolves the machine and registers the init job only
\* after the reservation poll observed the job Running or Dead.
C7_OnlyAfterRunningOrDead ==
    /\ LeftReservationWait => resSeen \in {Running, Dead}
    /\ (vm # Nil /\ Issued(InitJob, "register")) => resSeen \in {Running, Dead}

C7_Witness ==
    vm # Nil /\ Issued(InitJob, "register") /\ resSeen = Dead

\* Create has returned because a task of the Dead init job failed
InitTasksFailed ==
    pc["create"] = "done" /\ cErr = "init_failed" /\ cCause = "found failed tasks"

\* what the compensating Destroy did for the one instance it was given
Compensation == des["create"].hist[1]

\* C8 as stated: when the Dead init job's summary reports a failed task,
\* Create returns an error, a Deregister call for the reservation job is
\* issued, and the destroy job, pinned to the resolved node, is registered and
\* polled until Dead.
C8_DestroyRegisteredAndDead ==
    InitTasksFailed =>
        /\ cRes = "err"
        /\ Issued(ResJob, "deregister")
        /\ Compensation.reg = "ok"
        /\ jobNode[DestroyJob] = inst.NodeID
        /\ Compensation.poll = Dead

\* C8 as amended: when the Dead init job's summary reports a failed task,
\* Create returns an error, a Deregister call for the reservation job is
\* issued and the registration of the destroy job is attempted; if that
\* registration succeeds the job is pinned to the resolved node and polled
\* until it is Dead or the destroy deadline passes, and if it fails the
\* destroy job is neither registered nor polled.
C8_DestroyCompensates ==
    InitTasksFailed =>
        /\ cRes = "err"
        /\ Len(des["create"].hist) = 1
        /\ status[InitJob] = Dead /\ failed[vm] >= 1
        /\ Compensation.dereg # "none" /\ Issued(ResJob, "deregister")
        /\ Compensation.reg # "none" /\ Issued(DestroyJob, "register")
        /\ Compensation.reg = "ok" =>
              /\ jobNode[DestroyJob] = inst.NodeID
              /\ status[DestroyJob] # Absent
              /\ Compensation.poll \in {Dead, "err"}
              /\ Compensation.poll = Dead => status[DestroyJob] = Dead
        /\ Compensation.reg = "fail" =>
              /\ status[DestroyJob] = Absent
              /\ ~Compensation.info
              /\ Compensation.poll = "none"

C8_Witness ==
    /\ InitTasksFailed
    /\ Compensation.poll = Dead
    /\ inst.NodeID # StaleNode
    /\ jobNode[DestroyJob] = inst.NodeID

\* C9: in every Destroy, for each instance the Deregister call for the
\* reservation job is issued before the destroy job's registration is
\* attempted, and that registration is attempted whether the Deregister call
\* succeeded or failed.
C9_DeregisterThenRegister ==
    \A t \in Threads :
        \A k \in 1..Len(des[t].hist) :
            LET h == des[t].hist[k]
            IN  /\ h.reg # "none" =>
                      /\ h.dereg # "none"
                      /\ Issued(resourceJobID(des[t].insts[k].ID), "deregister")
                /\ (h.dereg # "none" /\ ~(k = des[t].idx /\ pc[t] = "d_reg"))
                      => h.reg # "none"

C9_Witness ==
    /\ pc["user"] = "idle" /\ uRes = "ok"
    /\ \E k \in 1..Len(des["user"].hist) :
          des["user"].hist[k].dereg = "fail" /\ des["user"].hist[k].reg = "ok"

\* the caller's Destroy of a non-empty slice has returned
UserReturned == pc["user"] = "idle" /\ uRes # "none" /\ Len(des["user"].insts) > 0

\* C10: Destroy handles the instances in slice order; a failed registration
\* or poll of a destroy job ends it with an error and no scheduler call is
\* made for any later instance; it returns ok only if every destroy job was
\* registered and observed Dead.
C10_AbortOnFirstError ==
    /\ \A t \in Threads :
          \A k \in 1..Len(des[t].hist) :
              /\ k > des[t].idx => des[t].hist[k] = NoStep
              /\ k < des[t].idx =>
                    des[t].hist[k].reg = "ok" /\ des[t].hist[k].poll = Dead
    /\ UserReturned =>
          LET d == des["user"]
          IN  /\ uRes = "err" =>
                    /\ d.hist[d.idx].reg = "fail" \/ d.hist[d.idx].poll = "err"
                    /\ \A k \in (d.idx + 1)..Len(d.insts) :
                          d.insts[k].ID \notin {d.insts[m].ID : m \in 1..d.idx}
                          => \A j \in JobsOf(d.insts[k].ID) :
                                 \A c \in d.calls : c[1] # j
              /\ uRes = "ok" =>
                    /\ d.idx = Len(d.insts)
                    /\ \A k \in 1..Len(d.insts) :
                          d.hist[k].reg = "ok" /\ d.hist[k].poll = Dead

C10_Witness ==
    /\ UserReturned /\ uRes = "err"
    /\ des["user"].idx = 1
    /\ Len(des["user"].insts) = 2
    /\ des["user"].insts[2].ID # des["user"].insts[1].ID
    /\ des["user"].hist[1].poll = "err"

\* the caller's repeated Destroy of a slice has returned, and when it started
\* no reservation job of the slice's instances was registered (the instances
\* were destroyed before, or never created)
RepeatReturned ==
    /\ UserReturned
    /\ uCalls >= 2
    /\ \A k \in 1..Len(des["user"].insts) :
          resourceJobID(des["user"].insts[k].ID) \notin uPrev.registered

\* C11: a repeated Destroy of instances whose reservation is gone leaves the
\* reservation absent whatever its Deregister call answers, registers the
\* destroy job again, fails only on the registration or the poll of a destroy
\* job, returns ok only with every destroy job observed Dead, and after an ok
\* that follows an ok the registered jobs are those left by the call before.
C11_DestroyIdempotent ==
    RepeatReturned =>
        LET d == des["user"]
        IN  /\ \A k \in 1..d.idx :
                  /\ d.hist[k].dereg # "none"
                  /\ d.hist[k].reg # "none"
                  /\ status[resourceJobID(d.insts[k].ID)] = Absent
            /\ uRes = "err" =>
                  d.hist[d.idx].reg = "fail" \/ d.hist[d.idx].poll = "err"
            /\ uRes = "ok" =>
                  /\ \A k \in 1..Len(d.insts) :
                        /\ d.hist[k].reg = "ok" /\ d.hist[k].poll = Dead
                        /\ status[destroyJobID(d.insts[k].ID)] = Dead
                  /\ uPrev.res = "ok" => Registered = uPrev.registered

\* the second Destroy of the created instance returned ok although the
\* Deregister call for its absent reservation answered an error
C11_Witness ==
    /\ RepeatReturned /\ uRes = "ok" /\ uPrev.res = "ok"
    /\ cRes = "ok"
    /\ des["user"].insts = <<inst>>
    /\ des["user"].hist[1].dereg = "fail"
    /\ Registered = {InitJob, DestroyJob}

\* the configured vm_cpus is not a number, or is the number 0
InvalidCpus == ~Atoi(cfg.vmCpus).ok \/ Atoi(cfg.vmCpus).val = 0

\* C12: with a vm_cpus that is 0 or not a number, Create makes no scheduler
\* call and, once it has returned, has returned a validation error.
C12_InvalidCpusRejected ==
    InvalidCpus =>
        /\ rpcs = {}
        /\ pc["create"] = "done" =>
              (cRes = "err" /\ cErr \in {"atoi_cpus", "atoi_memory"})

\* the reservation poll of a cancelled Create has returned without having
\* seen the job leave Pending
CancelledWhilePending ==
    /\ PollReturned("create")
    /\ ret["create"].id = ResJob
    /\ ctxDone["create"]
    /\ ret["create"].seen \in {Nil, Pending}

\* C13: when the context of Create is cancelled while the reservation job is
\* Pending, the poll returns an error and has launched the detached
\* deregistration of the reservation job.
C13_CancelDeregistersReservation ==
    CancelledWhilePending =>
        /\ ret["create"].err # NoErr
        /\ ret["create"].spawned
        /\ ResJob \in detached \/ Issued(ResJob, "deregister")

\* C14: the registration of the init job is attempted only after the
\* reservation job was registered and fetchMachine returned without error, and
\* the node constraint of the init job is the node id fetchMachine returned,
\* which is the NodeID of the instance Create returns.
C14_InitPinnedToResolvedNode ==
    /\ (vm # Nil /\ Issued(InitJob, "register")) =>
          /\ Issued(ResJob, "register")
          /\ Issued(ResJob, "allocations")
          /\ fetched.err = NoErr
          /\ fetched.nodeID \in Nodes
          /\ inst.NodeID = fetched.nodeID
    /\ (vm # Nil /\ status[InitJob] # Absent) =>
          jobNode[InitJob] = fetched.nodeID
    /\ (pc["create"] = "done" /\ cRes = "ok") =>
          /\ inst.NodeID = fetched.nodeID
          /\ jobNode[InitJob] = inst.NodeID

\* Create returned an instance placed on a node other than the one stale
\* instances carry
C14_Witness ==
    /\ pc["create"] = "done" /\ cRes = "ok"
    /\ fetched.nodeID = "n2"
    /\ jobNode[InitJob] = "n2"
    /\ jobNode[ResJob] = ""

\* fetchMachine has returned an error to Create
FetchFailed == fetched.err \notin {Nil, NoErr}

\* C15: fetchMachine succeeds only with a node id, a port in 1..65535 and a
\* literal IP; when it fails, Create returns an error, issues the Deregister
\* call for the reservation job (which is then gone unless that call failed)
\* and registers neither an init job nor a destroy job.
C15_ResolverFailureDeregisters ==
    /\ fetched.err = NoErr =>
          /\ fetched.nodeID \in Nodes
          /\ fetched.port \in 1..MaxPort
          /\ ParseIP(fetched.ip)
    /\ fetched.err = "bad_port" => fetched.port \notin 1..MaxPort
    /\ fetched.err = "bad_ip" => ~ParseIP(fetched.ip)
    /\ FetchFailed =>
          /\ pc["create"] \in {"c_defer_dereg", "done"}
          /\ cErr = "fetch"
          /\ inst = NoInst
          /\ ~Issued(InitJob, "register") /\ status[InitJob] = Absent
          /\ ~Issued(DestroyJob, "register") /\ status[DestroyJob] = Absent
          /\ pc["create"] = "done" =>
                /\ cRes = "err"
                /\ Issued(ResJob, "deregister")
                /\ status[ResJob] # Absent => ResJob \in deregFailed

\* Create returned after a resolved port above 65535 and the reservation is gone
C15_Witness ==
    /\ pc["create"] = "done" /\ cRes = "err"
    /\ fetched.err = "bad_port" /\ fetched.port = MaxPort + 1
    /\ Issued(ResJob, "deregister")
    /\ status[ResJob] = Absent

\* the job ids of one instance, in template order
JobNames(n) == <<n.res, n.init, n.destroy>>

\* C16: the three job ids of an instance id are pairwise distinct, each is its
\* prefix followed by the id, and two distinct ids of the generated form have
\* no job id and no port label in common.
C16_JobIdsDisjoint ==
    out # <<>> =>
        LET x == out[1].x
            y == out[1].y
        IN  /\ \A n \in {x, y} :
                  \A i, j \in 1..3 : i # j => JobNames(n)[i] # JobNames(n)[j]
            /\ JobNames(x) = <<"init_job_resources_" \o arg.x,
                               "init_job_" \o arg.x, "destroy_job_" \o arg.x>>
            /\ x.label = arg.x
            /\ (arg.x \in GenIds /\ arg.y \in GenIds /\ arg.x # arg.y) =>
                  /\ \A i, j \in 1..3 : JobNames(x)[i] # JobNames(y)[j]
                  /\ x.label # y.label

\* the job ids of two generated ids that share their characters were computed
C16_Witness ==
    /\ out # <<>>
    /\ arg.x = "as" /\ arg.y = "sa"
    /\ out[1].x.init = "init_job_as" /\ out[1].y.res = "init_job_resources_sa"

C18_DestroyTimeoutKeepsJob ==
    \A t \in Threads :
        \A k \in 1..Len(des[t].hist) :
            LET j == destroyJobID(des[t].insts[k].ID)
            IN  des[t].hist[k].poll = "err" =>
                    /\ k = des[t].idx
                    /\ des[t].hist[k].reg = "ok"
                    /\ pc[t] \in {"idle", "done"}
                    /\ t = "user" => uRes = "err"
                    /\ t = "create" => cRes = "err"
                    /\ status[j] # Absent
                    /\ ~Issued(j, "deregister")
                    /\ j \notin detached

\* the caller's Destroy returned an error at the destroy deadline, its context
\* not cancelled, and the destroy job is still running
C18_Witness ==
    /\ UserReturned /\ uRes = "err"
    /\ ~ctxDone["user"]
    /\ des["user"].hist[1].poll = "err"
    /\ des["user"].hist[1].info
    /\ status[destroyJobID(des["user"].insts[1].ID)] = Running

\* Create has returned because the init poll ended in an error, every detached
\* goroutine has run, and no Deregister or Register call of the cleanup failed
InitPollCleanedUp ==
    /\ pc["create"] = "done" /\ cErr = "init_poll"
    /\ CleanupFinished
    /\ deregFailed = {}
    /\ Len(des["create"].hist) = 1 /\ Compensation.reg = "ok"

\* C19: when the init poll ends without the init job Dead, the detached
\* deregistration of the polled job and the full Destroy have both run,
\* the reservation job is deregistered, the destroy job is registered for the
\* resolved node, and Create returned the error of the poll.
C19_InitTimeoutBothCleanups ==
    InitPollCleanedUp =>
        /\ Issued(InitJob, "deregister")
        /\ Compensation.dereg = "ok" /\ status[ResJob] = Absent
        /\ status[DestroyJob] # Absent /\ jobNode[DestroyJob] = inst.NodeID
        /\ cRes = "err"
        /\ cCause \in {"could not poll for job", "job never reached terminal state"}

\* C20: SetPlatformDefaults succeeds exactly when the platform it leaves has
\* arch amd64 or arm64 and os linux or windows; on success that platform is
\* the given one with an empty arch replaced by amd64 and an empty os by
\* linux; any other arch or os gives a validation error; valid values are
\* left as they are; and applied to its own successful result it succeeds
\* and changes nothing.
C20_PlatformDefaults ==
    \A k \in 1..Len(out) :
        LET g == out[k].given
            r == out[k].platform
            ok == out[k].err = NoErr
            validArch == {"amd64", "arm64"}
            validOS == {"linux", "windows"}
        IN  /\ ok <=> (r.Arch \in validArch /\ r.OS \in validOS)
            /\ ok => /\ r.Arch = IF g.Arch = "" THEN "amd64" ELSE g.Arch
                     /\ r.OS = IF g.OS = "" THEN "linux" ELSE g.OS
            /\ ok <=> (g.Arch \in validArch \cup {""} /\ g.OS \in validOS \cup {""})
            /\ ~ok => out[k].err \in {"invalid arch", "invalid OS"}
            /\ g.Arch \in validArch => r.Arch = g.Arch
            /\ g.OS \in validOS => r.OS = g.OS
            /\ k = 2 => (ok /\ r = g /\ r = out[1].platform)

\* the function was applied to the empty platform and again to its result
C20_Witness ==
    /\ Len(out) = 2
    /\ out[1].given = [Arch |-> "", OS |-> ""]
    /\ out[1].platform = [Arch |-> "amd64", OS |-> "linux"]
    /\ out[2].err = NoErr
    /\ arg = [Arch |-> "amd64", OS |-> "linux"]

\* thread t leaves pollForJob in this step
PollReturns(t) == pc[t] = "poll" /\ pc'[t] # "poll"

\* C21: pollForJob returns only in a step that observed a terminal status, or
\* with its deadline fired, or with its context cancelled; so a step whose
\* query failed or answered no job never ends the loop, and a return without
\* a job happens only after the deadline or the cancellation.
C21_PollRetriesFailedQueries ==
    [][\A t \in Threads :
          PollReturns(t) =>
              /\ \/ ret'[t].err = NoErr /\ ret'[t].job \in poll[t].terms
                 \/ poll[t].fired
                 \/ CtxIsDone(t)
              /\ ret'[t].job = Nil => (poll[t].fired \/ CtxIsDone(t))
              /\ ret'[t].err = NoErr => ret'[t].job \in poll[t].terms]_vars

\* a poll still running after an answer with the Pending job was followed by
\* a failed query or a nil job
C21_Witness ==
    /\ pc["create"] = "poll"
    /\ poll["create"].seen = Pending /\ poll["create"].job = Nil
    /\ ~poll["create"].fired /\ ~ctxDone["create"]

\* C22: a pollForJob whose deadline has fired or whose context is cancelled
\* returns, whatever the queries answer; every Create that was started
\* returns and every Destroy of the caller returns.
C22_CallsTerminate ==
    /\ \A t \in Threads :
          (pc[t] = "poll" /\ (poll[t].fired \/ CtxIsDone(t))) ~> (pc[t] # "poll")
    /\ (pc["create"] # "idle") ~> (pc["create"] = "done")
    /\ (pc["user"] # "idle") ~> (pc["user"] = "idle")

\* Create returned at the reservation deadline, its context not cancelled,
\* after queries that never answered a job
C22_Witness ==
    /\ pc["create"] = "done" /\ cErr = "no_node"
    /\ cCause = "could not poll for job"
    /\ Issued(ResJob, "info")
    /\ ~ctxDone["create"]

\* Create failed at the init poll or at the check of the init tasks
Compensating == cErr \in {"init_poll", "init_failed"}

\* C23: after a failure at the init poll or the init task check, Create
\* returns only when the Destroy it deferred has deregistered the reservation,
\* attempted the destroy job's registration and, if registered, polled it to
\* Dead or to the destroy deadline; that poll runs on the background context
\* and ends in an error only at its deadline; and the error Create returns is
\* the one of the init poll or the task check whatever Destroy returned.
C23_CompensationBeforeReturn ==
    /\ [](/\ (Compensating /\ pc["create"] # "done") => cRes = "none"
          /\ (pc["create"] = "poll" /\ poll["create"].cont = "d_polled")
                => (Compensating /\ poll["create"].bg)
          /\ (Compensating /\ pc["create"] = "done") =>
                /\ cRes = "err"
                /\ Len(des["create"].hist) = 1
                /\ Compensation.dereg # "none"
                /\ Compensation.reg # "none"
                /\ Compensation.reg = "ok" => Compensation.poll \in {Dead, "err"}
                /\ Compensation.reg = "fail" => Compensation.poll = "none"
                /\ cErr = "init_poll" =>
                      cCause \in {"could not poll for job",
                                  "job never reached terminal state"}
                /\ cErr = "init_failed" =>
                      cCause \in {"could not get summary of the job",
                                  "could not get summary of the task group",
                                  "found failed tasks"})
    /\ [][/\ (PollReturns("create") /\ poll["create"].cont = "d_polled")
                => (ret'["create"].err = NoErr \/ poll["create"].fired)
          /\ Compensating => (cErr' = cErr /\ cCause' = cCause)]_vars

\* Create returned the init poll's error after its context was cancelled, and
\* the Destroy it deferred still polled the destroy job to Dead
C23_Witness ==
    /\ pc["create"] = "done" /\ cErr = "init_poll"
    /\ ctxDone["create"]
    /\ cCause = "job never reached terminal state"
    /\ Len(des["create"].hist) = 1 /\ Compensation.poll = Dead

\* C24: whenever Create has returned an error after the init job was
\* registered, the init job was observed Dead or its deregistration has been
\* launched (the goroutine is pending or has made its Deregister call).
C24_InitJobNeverLeftRunning ==
    (CreateFailed /\ InitRegistered) =>
        \/ cErr = "init_failed"
        \/ InitJob \in detached
        \/ Issued(InitJob, "deregister")

\* jobs named after the instance ids of the call thread t runs
CallJobs(t) ==
    UNION {JobsOf(des[t].insts[k].ID) : k \in 1..Len(des[t].insts)}
\* jobs named after the instance id Create generated
CreateJobs == IF vm = Nil THEN {} ELSE JobsOf(vm)
\* jobs named after the instance ids the caller's Destroy was given
StaleJobs == UNION {JobsOf(i) : i \in StaleIds}
\* the step registered or deregistered job j, or moved it to another node
Reregistered(j) ==
    \/ jobNode'[j] # jobNode[j]
    \/ status'[j] # status[j] /\ status'[j] \in {Absent, Pending}

\* C25: while a Create and a Destroy of another instance interleave, every
\* request of a call names one of the three jobs of the call's own instance
\* id, the goroutines a poll launches included; a job of one instance is
\* registered, deregistered or moved only by a step of the call for that
\* instance; and no step changes the driver's configuration.
C25_CallsTouchOwnJobsOnly ==
    /\ [](/\ \A t \in Threads : \A c \in des[t].calls : c[1] \in CallJobs(t)
          /\ \A t \in Threads : pc[t] = "poll" =>
                poll[t].id \in (IF t = "create" THEN CreateJobs ELSE CallJobs(t))
          /\ \A c \in rpcs : c \in des["user"].calls \/ c[1] \in CreateJobs
          /\ \A c \in rpcs : c[1] \in StaleJobs => c \in des["user"].calls
          /\ \A c \in des["user"].calls : c[1] \in StaleJobs
          /\ detached \subseteq CreateJobs
          /\ \A i \in StaleIds : /\ status[resourceJobID(i)] = Absent
                                 /\ status[initJobID(i)] = Absent)
    /\ [][/\ cfg' = cfg
          /\ \A j \in StaleJobs : Reregistered(j) => pc'["user"] # pc["user"]
          /\ \A j \in JobIds \ StaleJobs : Reregistered(j) =>
                /\ vm' # Nil /\ j \in JobsOf(vm')
                /\ pc'["create"] # pc["create"] \/ detached' # detached
                /\ pc'["user"] = pc["user"] /\ des'["user"] = des["user"]]_vars

\* the caller's Destroy polls its destroy job, running on its node, while
\* Create polls the init job it registered beside its running reservation
C25_Witness ==
    /\ pc["create"] = "poll" /\ poll["create"].id = InitJob
    /\ status[ResJob] = Running
    /\ pc["user"] = "poll"
    /\ \E i \in StaleIds : /\ poll["user"].id = destroyJobID(i)
                           /\ status[destroyJobID(i)] = Running
                           /\ <<resourceJobID(i), "deregister">> \in des["user"].calls

====
